---- MODULE Spec2Model ----
(***************************************************************************)
(* Contact store, search store and their subscribers of the phonebook      *)
(* variants (Zustand, Valtio, Jotai, RxJS, Redux Toolkit).                 *)
(*                                                                         *)
(* The entity map is a function from keys to contact records; a contact    *)
(* keeps the fields the stores read: id, isFavorite, groups and the        *)
(* surname (name.last).  Object.values lists a map in key order.           *)
(***************************************************************************)
EXTENDS Integers, Sequences, FiniteSets, TLC

\* ------------------------------------------------------------------ bounds
MaxInFlight == 2       \* fetchContacts calls in flight at once
MaxFavorites == 3      \* length cap of the favorites array
MaxTimers == 2         \* search timers pending at once
MaxRequests == 2       \* create/save/remove/fetchGroups calls in flight at once
MaxQueued == 3         \* entries of the persisted offlineActions array

\* ---------------------------------------------------------------- universe
Ids == {"c1", "c2"}
GroupIds == {"g1", "g2"}
NULL == "null"
ErrorMessages == {"Network error"}

EmptyMap == [k \in {} |-> k]

Contact(i, fav, gs, ln) == [id |-> i, isFavorite |-> fav, groups |-> gs, last |-> ln]

GroupLists == {<<>>, <<"g1">>}

ContactInputs == {Contact("c1", fav, gs, "a") : fav \in BOOLEAN, gs \in GroupLists}
    \cup {Contact("c2", fav, <<"g2">>, "b") : fav \in BOOLEAN}

\* Partial<Contact> payloads of updateContact
UpdateInputs == {EmptyMap, [isFavorite |-> TRUE], [isFavorite |-> FALSE],
                 [last |-> "b"], [groups |-> <<"g1">>]}

\* lists handed to setContacts / returned by GET /contacts
ContactLists ==
    {<<>>,
     <<Contact("c1", TRUE, <<>>, "a")>>,
     <<Contact("c1", FALSE, <<"g1">>, "a"), Contact("c2", TRUE, <<>>, "b")>>,
     <<Contact("c2", TRUE, <<"g2">>, "a"), Contact("c1", TRUE, <<>>, "a")>>,
     <<Contact("c1", TRUE, <<>>, "a"), Contact("c1", FALSE, <<>>, "a")>>}

Group(g) == [id |-> g, name |-> "n"]
GroupListInputs == {<<>>, <<Group("g1")>>, <<Group("g1"), Group("g2")>>}

\* query texts: sequences of characters; "a" and "b" each stand for a name word
\* (of at least fuseOptions.minMatchCharLength characters), " " for a blank
Queries == {<<>>, <<" ">>, <<"a">>, <<"b">>}

defaultFilters == [groups |-> <<>>, favorites |-> FALSE]

\* Partial<SearchFilters> payloads of setFilters
FilterInputs == {[favorites |-> TRUE], [groups |-> <<"g1">>]}

\* entities added while a search is open
SearchContactInputs == {Contact("c1", TRUE, <<"g1">>, "a"), Contact("c2", FALSE, <<>>, "b")}

\* Object.values lists the keys in this order
KeyOrder == <<"c1", "c2">>

DefaultLimit == 50

\* response.data of contactsApi.createContact / updateContact
GatewayResponses ==
    {Contact("c1", TRUE, <<>>, "a"), Contact("c1", FALSE, <<"g1">>, "b"),
     Contact("c2", TRUE, <<>>, "b")}

\* contacts and partial updates whose groups list is supplied by the caller
CallerContacts ==
    {Contact("c1", FALSE, <<"g1", "g1">>, "a"), Contact("c1", TRUE, <<"g1", "g2">>, "a"),
     Contact("c2", FALSE, <<>>, "b")}

CallerUpdates == {[groups |-> <<"g2", "g2">>], [groups |-> <<"g1">>], [isFavorite |-> TRUE]}

Variants == {"zustand", "redux", "rx", "valtio"}

VARIABLES
    variant,        \* which implementation the state belongs to
    contacts, groups, favorites, loading, error,    \* ContactState
    pendingFetch,   \* fetchContacts calls awaiting their response
    inflight,       \* other gateway calls awaiting their response, in start order
    settled,        \* what the promise of the last gateway step is for its caller
    lastOp,         \* the operation that produced the state, with its argument
    fcSeen,         \* what a favoriteContacts$ subscriber received during lastOp
    query, filters, results, isSearching,           \* SearchState
    timers,         \* pending setTimeout callbacks of the search, oldest first
    displayed,      \* the derived contact list the views show
    twin,           \* the Redux contacts slice fed the same completed operations
    online,         \* navigator.onLine
    offlineActions, \* the array stored under localStorage 'offlineActions'
    rerender        \* a render of the subscribed list view is due

storeVars == <<contacts, groups, favorites, loading, error>>
searchVars == <<query, filters, results, isSearching, timers>>
otherVars == <<twin, online, offlineActions, rerender>>
vars == <<variant, contacts, groups, favorites, loading, error, pendingFetch, inflight,
          settled, lastOp, fcSeen, query, filters, results, isSearching, timers,
         displayed, twin, online, offlineActions, rerender>>

\* ------------------------------------------------------- JavaScript helpers
includes(seq, x) == \E i \in DOMAIN seq : seq[i] = x

push(seq, x) == Append(seq, x)

\* Array.prototype.filter(fId => fId !== id)
without(seq, x) == SelectSeq(seq, LAMBDA e : e # x)

elems(seq) == {seq[i] : i \in DOMAIN seq}

MapPut(m, k, v) == [x \in (DOMAIN m) \cup {k} |-> IF x = k THEN v ELSE m[x]]

MapDel(m, k) == [x \in (DOMAIN m) \ {k} |-> m[x]]

\* Object.assign(target, updates)
ObjectAssign(c, u) == [f \in (DOMAIN c) \cup (DOMAIN u) |-> IF f \in DOMAIN u THEN u[f] ELSE c[f]]

\* a gateway call awaiting its response; overtaken records that a call for the
\* same id that was started later has already completed
Req(op, arg) == [op |-> op, arg |-> arg, overtaken |-> FALSE]

removeAt(seq, i) == SubSeq(seq, 1, i - 1) \o SubSeq(seq, i + 1, Len(seq))

State == [contacts |-> contacts, groups |-> groups, favorites |-> favorites,
          loading |-> loading, error |-> error]

initialState == [contacts |-> EmptyMap, groups |-> EmptyMap, favorites |-> <<>>,
                 loading |-> FALSE, error |-> NULL]

\* ------------------------------------------- Zustand contact store (sync)
RECURSIVE setContactsLoop(_, _, _)
setContactsLoop(s, xs, i) ==
    IF i > Len(xs) THEN s
    ELSE LET c == xs[i]
             s1 == [s EXCEPT !.contacts = MapPut(s.contacts, c.id, c)]
             s2 == IF c.isFavorite
                   THEN [s1 EXCEPT !.favorites = push(s1.favorites, c.id)]
                   ELSE s1
         IN setContactsLoop(s2, xs, i + 1)

setContacts_keepFavorites(s, xs) == setContactsLoop([s EXCEPT !.contacts = EmptyMap], xs, 1)

setContacts(s, xs) ==
    setContactsLoop([s EXCEPT !.contacts = EmptyMap, !.favorites = <<>>], xs, 1)

addContact(s, c) ==
    LET s1 == [s EXCEPT !.contacts = MapPut(s.contacts, c.id, c)]
    IN IF c.isFavorite /\ ~includes(s1.favorites, c.id)
       THEN [s1 EXCEPT !.favorites = push(s1.favorites, c.id)]
       ELSE s1

updateContact(s, id, updates) ==
    IF id \in DOMAIN s.contacts
    THEN LET merged == ObjectAssign(s.contacts[id], updates)
             s1 == [s EXCEPT !.contacts = MapPut(s.contacts, id, merged)]
             isFavorite == merged.isFavorite
             inFavorites == includes(s1.favorites, id)
         IN IF isFavorite /\ ~inFavorites
            THEN [s1 EXCEPT !.favorites = push(s1.favorites, id)]
            ELSE IF ~isFavorite /\ inFavorites
                 THEN [s1 EXCEPT !.favorites = without(s1.favorites, id)]
                 ELSE s1
    ELSE s

deleteContact(s, id) ==
    [s EXCEPT !.contacts = MapDel(s.contacts, id),
              !.favorites = without(s.favorites, id)]

toggleFavorite(s, id) ==
    IF id \in DOMAIN s.contacts
    THEN LET c == [s.contacts[id] EXCEPT !.isFavorite = ~s.contacts[id].isFavorite]
             s1 == [s EXCEPT !.contacts = MapPut(s.contacts, id, c)]
         IN IF c.isFavorite
            THEN IF ~includes(s1.favorites, id)
                 THEN [s1 EXCEPT !.favorites = push(s1.favorites, id)]
                 ELSE s1
            ELSE [s1 EXCEPT !.favorites = without(s1.favorites, id)]
    ELSE s

RECURSIVE setGroupsLoop(_, _, _)
setGroupsLoop(m, gs, i) ==
    IF i > Len(gs) THEN m ELSE setGroupsLoop(MapPut(m, gs[i].id, gs[i]), gs, i + 1)

setGroups(s, gs) == [s EXCEPT !.groups = setGroupsLoop(EmptyMap, gs, 1)]

addGroup(s, g) == [s EXCEPT !.groups = MapPut(s.groups, g.id, g)]

deleteGroup(s, id) ==
    [s EXCEPT !.groups = MapDel(s.groups, id),
              !.contacts = [k \in DOMAIN s.contacts |->
                               [s.contacts[k] EXCEPT !.groups = without(s.contacts[k].groups, id)]]]

clearError(s) == [s EXCEPT !.error = NULL]

reset_keepError(s) == [initialState EXCEPT !.error = s.error]

reset(s) == initialState

\* ------------------------------------------ Zustand async gateway (steps)
fetchContactsStart(s) == [s EXCEPT !.loading = TRUE, !.error = NULL]

fetchContactsSuccess(s, data) == [setContacts(s, data) EXCEPT !.loading = FALSE]

fetchContactsFailure(s, msg) == [s EXCEPT !.error = msg, !.loading = FALSE]

\* createContact: get().addContact(response.data)
createContactSuccess(s, data) == addContact(s, data)

createContactFailure(s, msg) == [s EXCEPT !.error = msg]

saveContactSuccess_keepStored(s, id, data) == s

\* saveContact: get().updateContact(contact.id, response.data)
saveContactSuccess(s, id, data) == updateContact(s, id, data)

saveContactFailure(s, msg) == [s EXCEPT !.error = msg]

\* removeContact: get().deleteContact(id)
removeContactSuccess(s, id) == deleteContact(s, id)

removeContactFailure(s, msg) == [s EXCEPT !.error = msg]

\* fetchGroups: get().setGroups(response.data)
fetchGroupsSuccess(s, data) == setGroups(s, data)

fetchGroupsFailure(s, msg) == [s EXCEPT !.error = msg]

\* the calls still in flight after call i has completed
completed(reqs, i) ==
    removeAt([j \in DOMAIN reqs |->
                 IF j < i /\ reqs[j].op = reqs[i].op /\ reqs[j].arg = reqs[i].arg
                 THEN [reqs[j] EXCEPT !.overtaken = TRUE]
                 ELSE reqs[j]], i)

\* ------------------------------------- Redux contactsSlice and groupsSlice
reduxToggleFavorite(s, contactId) ==
    IF contactId \in DOMAIN s.contacts
    THEN LET c == [s.contacts[contactId] EXCEPT !.isFavorite = ~s.contacts[contactId].isFavorite]
             s1 == [s EXCEPT !.contacts = MapPut(s.contacts, contactId, c)]
         IN IF c.isFavorite
            THEN IF ~includes(s1.favorites, contactId)
                 THEN [s1 EXCEPT !.favorites = push(s1.favorites, contactId)]
                 ELSE s1
            ELSE [s1 EXCEPT !.favorites = without(s1.favorites, contactId)]
    ELSE s

addToGroup(s, contactId, groupId) ==
    IF contactId \in DOMAIN s.contacts /\ ~includes(s.contacts[contactId].groups, groupId)
    THEN [s EXCEPT !.contacts[contactId].groups = push(s.contacts[contactId].groups, groupId)]
    ELSE s

removeFromGroup(s, contactId, groupId) ==
    IF contactId \in DOMAIN s.contacts
    THEN [s EXCEPT !.contacts[contactId].groups = without(s.contacts[contactId].groups, groupId)]
    ELSE s

RECURSIVE bulkDelete(_, _)
bulkDelete(s, ids) ==
    IF ids = <<>> THEN s
    ELSE bulkDelete([s EXCEPT !.contacts = MapDel(s.contacts, Head(ids)),
                              !.favorites = without(s.favorites, Head(ids))], Tail(ids))

fetchContactsPending(s) == [s EXCEPT !.loading = TRUE, !.error = NULL]

\* the reducer over the payload: acc collects the new map, state.favorites is pushed to
RECURSIVE fetchContactsReduce(_, _, _, _)
fetchContactsReduce(acc, favs, payload, i) ==
    IF i > Len(payload) THEN [contacts |-> acc, favorites |-> favs]
    ELSE LET c == payload[i]
         IN fetchContactsReduce(MapPut(acc, c.id, c),
                                IF c.isFavorite THEN push(favs, c.id) ELSE favs,
                                payload, i + 1)

fetchContactsFulfilled(s, payload) ==
    LET r == fetchContactsReduce(EmptyMap, s.favorites, payload, 1)
    IN [s EXCEPT !.loading = FALSE, !.contacts = r.contacts, !.favorites = r.favorites]

fetchContactsRejected(s, msg) == [s EXCEPT !.loading = FALSE, !.error = msg]

createContactFulfilled(s, c) ==
    LET s1 == [s EXCEPT !.contacts = MapPut(s.contacts, c.id, c)]
    IN IF c.isFavorite THEN [s1 EXCEPT !.favorites = push(s1.favorites, c.id)] ELSE s1

updateContactFulfilled(s, c) ==
    LET s1 == [s EXCEPT !.contacts = MapPut(s.contacts, c.id, c)]
    IN IF c.isFavorite /\ ~includes(s1.favorites, c.id)
       THEN [s1 EXCEPT !.favorites = push(s1.favorites, c.id)]
       ELSE IF ~c.isFavorite
            THEN [s1 EXCEPT !.favorites = without(s1.favorites, c.id)]
            ELSE s1

deleteContactFulfilled(s, contactId) ==
    [s EXCEPT !.contacts = MapDel(s.contacts, contactId),
              !.favorites = without(s.favorites, contactId)]

\* an action type with no addCase in extraReducers: the slice state is returned as is
\* (createContact/updateContact/deleteContact .pending and .rejected)
noCase(s) == s

fetchGroupsFulfilled(s, payload) == [s EXCEPT !.groups = setGroupsLoop(EmptyMap, payload, 1)]

createGroupFulfilled(s, g) == [s EXCEPT !.groups = MapPut(s.groups, g.id, g)]

deleteGroupFulfilled(s, groupId) == [s EXCEPT !.groups = MapDel(s.groups, groupId)]

reduxClearError(s) == [s EXCEPT !.error = NULL]

\* ------------------------------------------------- RxJS ContactStore
\* An updater returns the next state and the slices it built anew: the
\* distinctUntilChanged() of contacts$ and favorites$ compares references, so a
\* slice is emitted exactly when the updater replaced its object.
Updated(next, fresh) == [next |-> next, fresh |-> fresh]

rxSetContacts(s, xs) ==
    LET r == fetchContactsReduce(EmptyMap, <<>>, xs, 1)
        favs == SelectSeq(xs, LAMBDA c : c.isFavorite)
    IN Updated([s EXCEPT !.contacts = r.contacts,
                         !.favorites = [i \in DOMAIN favs |-> favs[i].id]],
               {"contacts", "favorites"})

rxAddContact(s, c) ==
    LET grows == c.isFavorite /\ ~includes(s.favorites, c.id)
    IN Updated([s EXCEPT !.contacts = MapPut(s.contacts, c.id, c),
                         !.favorites = IF grows THEN push(s.favorites, c.id) ELSE s.favorites],
               {"contacts"} \cup (IF grows THEN {"favorites"} ELSE {}))

rxUpdateContact(s, id, updates) ==
    IF id \notin DOMAIN s.contacts THEN Updated(s, {})
    ELSE LET updatedContact == ObjectAssign(s.contacts[id], updates)
             kept == updatedContact.isFavorite /\ includes(s.favorites, id)
             favs == IF updatedContact.isFavorite
                     THEN IF includes(s.favorites, id) THEN s.favorites ELSE push(s.favorites, id)
                     ELSE without(s.favorites, id)
         IN Updated([s EXCEPT !.contacts = MapPut(s.contacts, id, updatedContact),
                              !.favorites = favs],
                    {"contacts"} \cup (IF kept THEN {} ELSE {"favorites"}))

rxDeleteContact(s, id) ==
    Updated([s EXCEPT !.contacts = MapDel(s.contacts, id),
                      !.favorites = without(s.favorites, id)],
            {"contacts", "favorites"})

rxToggleFavorite(s, id) ==
    IF id \notin DOMAIN s.contacts THEN Updated(s, {})
    ELSE LET isFavorite == ~s.contacts[id].isFavorite
             updatedContact == [s.contacts[id] EXCEPT !.isFavorite = isFavorite]
             kept == isFavorite /\ includes(s.favorites, id)
             favs == IF isFavorite
                     THEN IF includes(s.favorites, id) THEN s.favorites ELSE push(s.favorites, id)
                     ELSE without(s.favorites, id)
         IN Updated([s EXCEPT !.contacts = MapPut(s.contacts, id, updatedContact),
                              !.favorites = favs],
                    {"contacts"} \cup (IF kept THEN {} ELSE {"favorites"}))

rxSetLoading(s, l) == Updated([s EXCEPT !.loading = l], {})

rxSetError(s, e) == Updated([s EXCEPT !.error = e], {})

rxReset(s) == Updated(initialState, {"contacts", "favorites", "groups"})

rxSetGroups(s, gs) == Updated([s EXCEPT !.groups = setGroupsLoop(EmptyMap, gs, 1)], {"groups"})

\* fetchContacts(): setLoading(true); setError(null); then the request is sent
rxFetchContactsStart(s) == rxSetError(rxSetLoading(s, TRUE).next, NULL)

\* .then(response => response.data) ... .finally(() => setLoading(false))
rxFetchContactsSuccess(s) == rxSetLoading(s, FALSE)

\* .catch(error => { setError(error.message); throw error }).finally(...)
rxFetchContactsFailure(s, msg) == rxSetLoading(rxSetError(s, msg).next, FALSE)

\* fetchGroups(): tap(groups => setGroups(groups))
rxFetchGroupsSuccess(s, data) == rxSetGroups(s, data)

\* fetchGroups(): catchError(error => { setError(error.message); throw error })
rxFetchGroupsFailure(s, msg) == rxSetError(s, msg)

\* favorites.map(id => contacts[id]).filter(Boolean)
favoriteContactsOf(cs, favs) ==
    LET present == SelectSeq(favs, LAMBDA id : id \in DOMAIN cs)
    IN [i \in DOMAIN present |-> cs[present[i]]]

\* favoriteContacts$ = combineLatest([contacts$, favorites$]): state$.next(next)
\* reaches contacts$ first and favorites$ second, and combineLatest emits on each.
favoriteContactsEmissions(s, u) ==
    LET first == IF "contacts" \in u.fresh
                 THEN <<favoriteContactsOf(u.next.contacts, s.favorites)>>
                 ELSE <<>>
        second == IF "favorites" \in u.fresh
                  THEN <<favoriteContactsOf(u.next.contacts, u.next.favorites)>>
                  ELSE <<>>
    IN first \o second

\* the slice streams that emit during one updateState: contacts$, favorites$ and
\* groups$ pass a value on when its reference differs from the previous one,
\* loading$ and error$ (primitive values) when the value differs
sliceEmissions(s, u) ==
    (u.fresh \cap {"contacts", "favorites", "groups"})
        \cup (IF u.next.loading # s.loading THEN {"loading"} ELSE {})
        \cup (IF u.next.error # s.error THEN {"error"} ELSE {})

\* ------------------------------------------------------- searchService
RECURSIVE trimStart(_)
trimStart(q) == IF q # <<>> /\ Head(q) = " " THEN trimStart(Tail(q)) ELSE q

RECURSIVE trimEnd(_)
trimEnd(q) == IF q # <<>> /\ q[Len(q)] = " " THEN trimEnd(SubSeq(q, 1, Len(q) - 1)) ELSE q

trim(q) == trimEnd(trimStart(q))

ObjectValues(m) ==
    LET ks == SelectSeq(KeyOrder, LAMBDA k : k \in DOMAIN m)
    IN [i \in DOMAIN ks |-> m[ks[i]]]

\* Array.prototype.slice(from, to)
slice(seq, from, to) ==
    LET hi == IF to < Len(seq) THEN to ELSE Len(seq)
    IN IF from >= hi THEN <<>> ELSE SubSeq(seq, from + 1, hi)

\* request.f || d, for an optional numeric field f: undefined and 0 give d
OrDefault(request, f, d) ==
    IF f \notin DOMAIN request \/ request[f] = 0 THEN d ELSE request[f]

\* a.name.last.localeCompare(b.name.last) < 0, on the name tokens
localeLess(x, y) == x = "a" /\ y = "b"

\* Array.prototype.sort with that comparison (stable)
RECURSIVE sortByLast(_)
sortByLast(seq) ==
    IF seq = <<>> THEN <<>>
    ELSE LET i == CHOOSE j \in DOMAIN seq :
                      /\ \A k \in DOMAIN seq : ~localeLess(seq[k].last, seq[j].last)
                      /\ \A k \in 1..(j - 1) : localeLess(seq[j].last, seq[k].last)
         IN <<seq[i]>> \o sortByLast(SubSeq(seq, 1, i - 1) \o SubSeq(seq, i + 1, Len(seq)))

\* new Fuse(list, fuseOptions).search(query): the entities whose surname token
\* is the query, in list order
fuseSearch(list, q) == SelectSeq(list, LAMBDA c : <<c.last>> = trim(q))

\* the request the search stores build: no offset, no limit
Request(q, f) == [query |-> q, filters |-> f]

searchContacts(cs, request) ==
    LET byGroup == IF Len(request.filters.groups) > 0
                   THEN SelectSeq(cs, LAMBDA c :
                            \E i \in DOMAIN c.groups : includes(request.filters.groups, c.groups[i]))
                   ELSE cs
        filteredContacts == IF request.filters.favorites
                            THEN SelectSeq(byGroup, LAMBDA c : c.isFavorite)
                            ELSE byGroup
        from == OrDefault(request, "offset", 0)
        to == from + OrDefault(request, "limit", DefaultLimit)
    IN IF trim(request.query) = <<>>
       THEN slice(sortByLast(filteredContacts), from, to)
       ELSE slice(fuseSearch(filteredContacts, request.query), from, to)

\* --------------------------------------------------- Valtio searchStore
SearchState == [query |-> query, filters |-> filters, results |-> results,
                isSearching |-> isSearching, timers |-> timers]

\* a pending setTimeout callback: the query text and the contact list are
\* captured by value, the filters by reference to the searchState.filters object
Timer(q, cs) == [query |-> q, contacts |-> cs, live |-> TRUE, frozen |-> defaultFilters]

performSearch(ss, cs) ==
    IF trim(ss.query) = <<>>
    THEN [ss EXCEPT !.results = <<>>, !.isSearching = FALSE]
    ELSE [ss EXCEPT !.isSearching = TRUE,
                    !.timers = Append(ss.timers, Timer(ss.query, ObjectValues(cs)))]

setQuery(ss, cs, q) == performSearch([ss EXCEPT !.query = q], cs)

setFilters(ss, cs, partial) ==
    performSearch([ss EXCEPT !.filters = ObjectAssign(ss.filters, partial)], cs)

addGroupFilter(ss, cs, groupId) ==
    IF ~includes(ss.filters.groups, groupId)
    THEN performSearch([ss EXCEPT !.filters.groups = push(ss.filters.groups, groupId)], cs)
    ELSE ss

removeGroupFilter(ss, cs, groupId) ==
    performSearch([ss EXCEPT !.filters.groups = without(ss.filters.groups, groupId)], cs)

toggleFavoritesFilter(ss, cs) ==
    performSearch([ss EXCEPT !.filters.favorites = ~ss.filters.favorites], cs)

\* searchState.filters is replaced: callbacks that hold the old object keep its values
clearSearch(ss) ==
    [ss EXCEPT !.query = <<>>, !.filters = defaultFilters, !.results = <<>>,
               !.timers = [i \in DOMAIN ss.timers |->
                              IF ss.timers[i].live
                              THEN [ss.timers[i] EXCEPT !.live = FALSE, !.frozen = ss.filters]
                              ELSE ss.timers[i]]]

\* the callback of the oldest timer (equal delays expire in the order they were set)
searchTimer(ss) ==
    LET t == Head(ss.timers)
        f == IF t.live THEN ss.filters ELSE t.frozen
    IN [ss EXCEPT !.results = searchContacts(t.contacts, Request(t.query, f)),
                  !.isSearching = FALSE,
                  !.timers = Tail(ss.timers)]

displayContacts_untrimmed(ss, cs) == IF ss.query # <<>> THEN ss.results ELSE ObjectValues(cs)

\* derivedSearchState.displayContacts
displayContacts(ss, cs) == IF trim(ss.query) # <<>> THEN ss.results ELSE ObjectValues(cs)

\* -------------------------------------------------------------- transitions
\* what a bulk replacement overwrote: the keys and the favorites before the call
Before == [keys |-> DOMAIN contacts, favorites |-> favorites, groupKeys |-> DOMAIN groups,
           loading |-> loading, error |-> error]

CommitFull(s, op, arg, prev) ==
    /\ Len(s.favorites) <= MaxFavorites
    /\ contacts' = s.contacts
    /\ groups' = s.groups
    /\ favorites' = s.favorites
    /\ loading' = s.loading
    /\ error' = s.error
    /\ lastOp' = [op |-> op, arg |-> arg, prev |-> prev]

Commit(s, op, arg) == CommitFull(s, op, arg, NULL)

Init ==
    /\ variant \in Variants
    /\ contacts = EmptyMap
    /\ groups = EmptyMap
    /\ favorites = <<>>
    /\ loading = FALSE
    /\ error = NULL
    /\ pendingFetch = 0
    /\ inflight = <<>>
    /\ settled = "none"
    /\ lastOp = [op |-> "init", arg |-> NULL, prev |-> NULL]
    /\ fcSeen = [pre |-> <<>>, seen |-> <<>>, emitted |-> {}]
    /\ query = <<>>
    /\ filters = [groups |-> <<>>, favorites |-> FALSE]
    /\ results = <<>>
    /\ isSearching = FALSE
    /\ timers = <<>>
    /\ displayed = <<>>
    /\ twin = initialState
    /\ online = TRUE
    /\ offlineActions = <<>>
    /\ rerender = FALSE

ZSetContacts ==
    /\ \E xs \in ContactLists : CommitFull(setContacts(State, xs), "setContacts", xs, Before)
    /\ UNCHANGED <<variant, displayed, otherVars, inflight, settled, pendingFetch, fcSeen, searchVars>>

ZAddContact ==
    /\ \E c \in ContactInputs : Commit(addContact(State, c), "addContact", c.id)
    /\ UNCHANGED <<variant, displayed, otherVars, inflight, settled, pendingFetch, fcSeen, searchVars>>

ZUpdateContact ==
    /\ \E id \in Ids, u \in UpdateInputs : Commit(updateContact(State, id, u), "updateContact", id)
    /\ UNCHANGED <<variant, displayed, otherVars, inflight, settled, pendingFetch, fcSeen, searchVars>>

ZDeleteContact ==
    /\ \E id \in Ids : Commit(deleteContact(State, id), "deleteContact", id)
    /\ UNCHANGED <<variant, displayed, otherVars, inflight, settled, pendingFetch, fcSeen, searchVars>>

ZToggleFavorite ==
    /\ \E id \in Ids : Commit(toggleFavorite(State, id), "toggleFavorite", id)
    /\ UNCHANGED <<variant, displayed, otherVars, inflight, settled, pendingFetch, fcSeen, searchVars>>

ZSetGroups ==
    /\ \E gs \in GroupListInputs : Commit(setGroups(State, gs), "setGroups", gs)
    /\ UNCHANGED <<variant, displayed, otherVars, inflight, settled, pendingFetch, fcSeen, searchVars>>

ZAddGroup ==
    /\ \E g \in GroupIds : Commit(addGroup(State, Group(g)), "addGroup", g)
    /\ UNCHANGED <<variant, displayed, otherVars, inflight, settled, pendingFetch, fcSeen, searchVars>>

ZDeleteGroup ==
    /\ \E g \in GroupIds : Commit(deleteGroup(State, g), "deleteGroup", g)
    /\ UNCHANGED <<variant, displayed, otherVars, inflight, settled, pendingFetch, fcSeen, searchVars>>

ZClearError ==
    /\ Commit(clearError(State), "clearError", NULL)
    /\ UNCHANGED <<variant, displayed, otherVars, inflight, settled, pendingFetch, fcSeen, searchVars>>

ZReset ==
    /\ CommitFull(reset(State), "reset", NULL, Before)
    /\ UNCHANGED <<variant, displayed, otherVars, inflight, settled, pendingFetch, fcSeen, searchVars>>

ZFetchContactsStart ==
    /\ pendingFetch < MaxInFlight
    /\ Commit(fetchContactsStart(State), "fetchContacts", NULL)
    /\ pendingFetch' = pendingFetch + 1
    /\ UNCHANGED <<variant, displayed, otherVars, inflight, settled, fcSeen, searchVars>>

ZFetchContactsSuccess ==
    /\ pendingFetch > 0
    /\ \E data \in ContactLists : CommitFull(fetchContactsSuccess(State, data), "fetchContactsSuccess", data, Before)
    /\ pendingFetch' = pendingFetch - 1
    /\ UNCHANGED <<variant, displayed, otherVars, inflight, settled, fcSeen, searchVars>>

ZFetchContactsFailure ==
    /\ pendingFetch > 0
    /\ \E msg \in ErrorMessages : Commit(fetchContactsFailure(State, msg), "fetchContactsFailure", msg)
    /\ pendingFetch' = pendingFetch - 1
    /\ UNCHANGED <<variant, displayed, otherVars, inflight, settled, fcSeen, searchVars>>

RToggleFavorite ==
    /\ \E id \in Ids : Commit(reduxToggleFavorite(State, id), "toggleFavorite", id)
    /\ UNCHANGED <<variant, displayed, otherVars, inflight, settled, pendingFetch, fcSeen, searchVars>>

RAddToGroup ==
    /\ \E id \in Ids, g \in GroupIds : Commit(addToGroup(State, id, g), "addToGroup", id)
    /\ UNCHANGED <<variant, displayed, otherVars, inflight, settled, pendingFetch, fcSeen, searchVars>>

RRemoveFromGroup ==
    /\ \E id \in Ids, g \in GroupIds : Commit(removeFromGroup(State, id, g), "removeFromGroup", id)
    /\ UNCHANGED <<variant, displayed, otherVars, inflight, settled, pendingFetch, fcSeen, searchVars>>

RBulkDelete ==
    /\ \E ids \in {<<"c1">>, <<"c1", "c2">>} : Commit(bulkDelete(State, ids), "bulkDelete", ids)
    /\ UNCHANGED <<variant, displayed, otherVars, inflight, settled, pendingFetch, fcSeen, searchVars>>

RClearError ==
    /\ Commit(reduxClearError(State), "clearError", NULL)
    /\ UNCHANGED <<variant, displayed, otherVars, inflight, settled, pendingFetch, fcSeen, searchVars>>

RFetchContactsPending ==
    /\ pendingFetch < MaxInFlight
    /\ Commit(fetchContactsPending(State), "fetchContacts", NULL)
    /\ pendingFetch' = pendingFetch + 1
    /\ UNCHANGED <<variant, displayed, otherVars, inflight, settled, fcSeen, searchVars>>

RFetchContactsFulfilled ==
    /\ pendingFetch > 0
    /\ \E data \in ContactLists : CommitFull(fetchContactsFulfilled(State, data), "fetchContactsSuccess", data, Before)
    /\ pendingFetch' = pendingFetch - 1
    /\ UNCHANGED <<variant, displayed, otherVars, inflight, settled, fcSeen, searchVars>>

RFetchContactsRejected ==
    /\ pendingFetch > 0
    /\ \E msg \in ErrorMessages : Commit(fetchContactsRejected(State, msg), "fetchContactsFailure", msg)
    /\ pendingFetch' = pendingFetch - 1
    /\ UNCHANGED <<variant, displayed, otherVars, inflight, settled, fcSeen, searchVars>>

RCreateContactFulfilled ==
    /\ \E c \in ContactInputs : Commit(createContactFulfilled(State, c), "createContactSuccess", c.id)
    /\ UNCHANGED <<variant, displayed, otherVars, inflight, settled, pendingFetch, fcSeen, searchVars>>

RUpdateContactFulfilled ==
    /\ \E c \in ContactInputs : Commit(updateContactFulfilled(State, c), "updateContact", c.id)
    /\ UNCHANGED <<variant, displayed, otherVars, inflight, settled, pendingFetch, fcSeen, searchVars>>

RDeleteContactFulfilled ==
    /\ \E id \in Ids : Commit(deleteContactFulfilled(State, id), "deleteContact", id)
    /\ UNCHANGED <<variant, displayed, otherVars, inflight, settled, pendingFetch, fcSeen, searchVars>>

RFetchGroupsFulfilled ==
    /\ \E gs \in GroupListInputs : Commit(fetchGroupsFulfilled(State, gs), "setGroups", gs)
    /\ UNCHANGED <<variant, displayed, otherVars, inflight, settled, pendingFetch, fcSeen, searchVars>>

RCreateGroupFulfilled ==
    /\ \E g \in GroupIds : Commit(createGroupFulfilled(State, Group(g)), "addGroup", g)
    /\ UNCHANGED <<variant, displayed, otherVars, inflight, settled, pendingFetch, fcSeen, searchVars>>

RDeleteGroupFulfilled ==
    /\ \E g \in GroupIds : Commit(deleteGroupFulfilled(State, g), "deleteGroup", g)
    /\ UNCHANGED <<variant, displayed, otherVars, inflight, settled, pendingFetch, fcSeen, searchVars>>

NextZustand ==
    \/ ZSetContacts
    \/ ZAddContact
    \/ ZUpdateContact
    \/ ZDeleteContact
    \/ ZToggleFavorite
    \/ ZSetGroups
    \/ ZAddGroup
    \/ ZDeleteGroup
    \/ ZClearError
    \/ ZReset
    \/ ZFetchContactsStart
    \/ ZFetchContactsSuccess
    \/ ZFetchContactsFailure

NextRedux ==
    \/ RToggleFavorite
    \/ RAddToGroup
    \/ RRemoveFromGroup
    \/ RBulkDelete
    \/ RClearError
    \/ RFetchContactsPending
    \/ RFetchContactsFulfilled
    \/ RFetchContactsRejected
    \/ RCreateContactFulfilled
    \/ RUpdateContactFulfilled
    \/ RDeleteContactFulfilled
    \/ RFetchGroupsFulfilled
    \/ RCreateGroupFulfilled
    \/ RDeleteGroupFulfilled

InitZustand == Init /\ variant = "zustand"

InitRedux == Init /\ variant = "redux"

\* the Zustand contact store (Valtio's and Jotai's actions have the same bodies)
SpecZustand == InitZustand /\ [][NextZustand]_vars

\* the Redux Toolkit contactsSlice and groupsSlice reducers
SpecRedux == InitRedux /\ [][NextRedux]_vars

\* ------------------------------------------------ RxJS ContactStore steps
\* updateState(updater): state$.next(updater(state$.value)), subscribers run inside
UpdateState(u, op, arg) ==
    /\ Commit(u.next, op, arg)
    /\ fcSeen' = [pre |-> favoriteContactsOf(contacts, favorites),
                  seen |-> favoriteContactsEmissions(State, u),
                  emitted |-> sliceEmissions(State, u)]

RxSetContacts ==
    /\ \E xs \in ContactLists : UpdateState(rxSetContacts(State, xs), "setContacts", xs)
    /\ UNCHANGED <<variant, displayed, otherVars, inflight, settled, pendingFetch, searchVars>>

RxAddContact ==
    /\ \E c \in ContactInputs : UpdateState(rxAddContact(State, c), "addContact", c.id)
    /\ UNCHANGED <<variant, displayed, otherVars, inflight, settled, pendingFetch, searchVars>>

RxUpdateContact ==
    /\ \E id \in Ids, u \in UpdateInputs :
           UpdateState(rxUpdateContact(State, id, u), "updateContact", id)
    /\ UNCHANGED <<variant, displayed, otherVars, inflight, settled, pendingFetch, searchVars>>

RxDeleteContact ==
    /\ \E id \in Ids : UpdateState(rxDeleteContact(State, id), "deleteContact", id)
    /\ UNCHANGED <<variant, displayed, otherVars, inflight, settled, pendingFetch, searchVars>>

RxToggleFavorite ==
    /\ \E id \in Ids : UpdateState(rxToggleFavorite(State, id), "toggleFavorite", id)
    /\ UNCHANGED <<variant, displayed, otherVars, inflight, settled, pendingFetch, searchVars>>

RxSetLoading ==
    /\ \E l \in BOOLEAN : UpdateState(rxSetLoading(State, l), "setLoading", l)
    /\ UNCHANGED <<variant, displayed, otherVars, inflight, settled, pendingFetch, searchVars>>

RxSetError ==
    /\ \E e \in ErrorMessages \cup {NULL} : UpdateState(rxSetError(State, e), "setError", e)
    /\ UNCHANGED <<variant, displayed, otherVars, inflight, settled, pendingFetch, searchVars>>

RxReset ==
    /\ UpdateState(rxReset(State), "reset", NULL)
    /\ UNCHANGED <<variant, displayed, otherVars, inflight, settled, pendingFetch, searchVars>>

NextRx ==
    \/ RxSetContacts
    \/ RxAddContact
    \/ RxUpdateContact
    \/ RxDeleteContact
    \/ RxToggleFavorite
    \/ RxSetLoading
    \/ RxSetError
    \/ RxReset

InitRx == Init /\ variant = "rx"

\* the RxJS ContactStore with one subscriber of favoriteContacts$
SpecRx == InitRx /\ [][NextRx]_vars

\* ---------------------------------------- Zustand gateway operations
\* nothing is written to the store before the await of a write call or of fetchGroups
Call(op, arg) ==
    /\ Len(inflight) < MaxRequests
    /\ inflight' = Append(inflight, Req(op, arg))
    /\ Commit(State, op, arg)
    /\ settled' = "pending"

\* call i of kind op gets its response or its error
Settles(i, op, outcome) ==
    /\ inflight[i].op = op
    /\ inflight' = completed(inflight, i)
    /\ settled' = outcome

ZCreateContactStart ==
    /\ Call("createContact", NULL)
    /\ UNCHANGED <<variant, displayed, otherVars, pendingFetch, fcSeen, searchVars>>

ZCreateContactSuccess ==
    /\ \E i \in DOMAIN inflight, data \in GatewayResponses :
           /\ Settles(i, "createContact", "resolved")
           /\ Commit(createContactSuccess(State, data), "createContactSuccess", data.id)
    /\ UNCHANGED <<variant, displayed, otherVars, pendingFetch, fcSeen, searchVars>>

ZCreateContactFailure ==
    /\ \E i \in DOMAIN inflight, msg \in ErrorMessages :
           /\ Settles(i, "createContact", "rejected")
           /\ Commit(createContactFailure(State, msg), "createContactFailure", msg)
    /\ UNCHANGED <<variant, displayed, otherVars, pendingFetch, fcSeen, searchVars>>

ZSaveContactStart ==
    /\ \E id \in Ids : Call("saveContact", id)
    /\ UNCHANGED <<variant, displayed, otherVars, pendingFetch, fcSeen, searchVars>>

ZSaveContactSuccess ==
    /\ \E i \in DOMAIN inflight, data \in GatewayResponses :
           /\ Settles(i, "saveContact", "resolved")
           /\ CommitFull(saveContactSuccess(State, inflight[i].arg, data), "saveContactSuccess",
                         [id |-> inflight[i].arg, data |-> data],
                         [overtaken |-> inflight[i].overtaken,
                          changes |-> /\ inflight[i].arg \in DOMAIN contacts
                                      /\ contacts[inflight[i].arg] # data])
    /\ UNCHANGED <<variant, displayed, otherVars, pendingFetch, fcSeen, searchVars>>

ZSaveContactFailure ==
    /\ \E i \in DOMAIN inflight, msg \in ErrorMessages :
           /\ Settles(i, "saveContact", "rejected")
           /\ Commit(saveContactFailure(State, msg), "saveContactFailure", msg)
    /\ UNCHANGED <<variant, displayed, otherVars, pendingFetch, fcSeen, searchVars>>

ZRemoveContactStart ==
    /\ \E id \in Ids : Call("removeContact", id)
    /\ UNCHANGED <<variant, displayed, otherVars, pendingFetch, fcSeen, searchVars>>

ZRemoveContactSuccess ==
    /\ \E i \in DOMAIN inflight :
           /\ Settles(i, "removeContact", "resolved")
           /\ Commit(removeContactSuccess(State, inflight[i].arg), "removeContactSuccess",
                     inflight[i].arg)
    /\ UNCHANGED <<variant, displayed, otherVars, pendingFetch, fcSeen, searchVars>>

ZRemoveContactFailure ==
    /\ \E i \in DOMAIN inflight, msg \in ErrorMessages :
           /\ Settles(i, "removeContact", "rejected")
           /\ Commit(removeContactFailure(State, msg), "removeContactFailure", msg)
    /\ UNCHANGED <<variant, displayed, otherVars, pendingFetch, fcSeen, searchVars>>

ZFetchGroupsStart ==
    /\ Call("fetchGroups", NULL)
    /\ UNCHANGED <<variant, displayed, otherVars, pendingFetch, fcSeen, searchVars>>

ZFetchGroupsSuccess ==
    /\ \E i \in DOMAIN inflight, data \in GroupListInputs :
           /\ Settles(i, "fetchGroups", "resolved")
           /\ Commit(fetchGroupsSuccess(State, data), "fetchGroupsSuccess", data)
    /\ UNCHANGED <<variant, displayed, otherVars, pendingFetch, fcSeen, searchVars>>

ZFetchGroupsFailure ==
    /\ \E i \in DOMAIN inflight, msg \in ErrorMessages :
           /\ Settles(i, "fetchGroups", "resolved")
           /\ Commit(fetchGroupsFailure(State, msg), "fetchGroupsFailure", msg)
    /\ UNCHANGED <<variant, displayed, otherVars, pendingFetch, fcSeen, searchVars>>

NextGateway ==
    \/ ZCreateContactStart
    \/ ZCreateContactSuccess
    \/ ZCreateContactFailure
    \/ ZSaveContactStart
    \/ ZSaveContactSuccess
    \/ ZSaveContactFailure
    \/ ZRemoveContactStart
    \/ ZRemoveContactSuccess
    \/ ZRemoveContactFailure
    \/ ZFetchGroupsStart
    \/ ZFetchGroupsSuccess
    \/ ZFetchGroupsFailure

\* the gateway operations of the Zustand store (the Valtio ones have the same bodies)
SpecGateway == InitZustand /\ [][NextGateway]_vars

\* ------------------------------- Zustand store, caller-supplied group lists
ZAddContactWithGroups ==
    /\ \E c \in CallerContacts : Commit(addContact(State, c), "addContact", c.id)
    /\ UNCHANGED <<variant, displayed, otherVars, inflight, settled, pendingFetch, fcSeen, searchVars>>

ZUpdateContactWithGroups ==
    /\ \E id \in Ids, u \in CallerUpdates : Commit(updateContact(State, id, u), "updateContact", id)
    /\ UNCHANGED <<variant, displayed, otherVars, inflight, settled, pendingFetch, fcSeen, searchVars>>

NextMembership ==
    \/ ZAddContactWithGroups
    \/ ZUpdateContactWithGroups
    \/ ZDeleteContact
    \/ ZToggleFavorite
    \/ ZAddGroup
    \/ ZDeleteGroup

\* group memberships in the Zustand store
SpecMembership == InitZustand /\ [][NextMembership]_vars

\* -------------------------------------- Redux write thunks, other lifecycle
\* dispatch(updateContact(request)): the pending action is dispatched before the
\* payload creator awaits contactsApi.updateContact
RUpdateContactPending ==
    /\ \E c \in ContactInputs : Commit(noCase(State), "updateContactPending", c)
    /\ settled' = "pending"
    /\ UNCHANGED <<variant, displayed, otherVars, inflight, pendingFetch, fcSeen, searchVars>>

\* the payload creator throws: the rejected action is dispatched and the promise
\* returned by dispatch fulfils with that action
RCreateContactRejected ==
    /\ \E msg \in ErrorMessages : Commit(noCase(State), "createContactFailure", msg)
    /\ settled' = "resolved"
    /\ UNCHANGED <<variant, displayed, otherVars, inflight, pendingFetch, fcSeen, searchVars>>

RUpdateContactRejected ==
    /\ \E msg \in ErrorMessages : Commit(noCase(State), "saveContactFailure", msg)
    /\ settled' = "resolved"
    /\ UNCHANGED <<variant, displayed, otherVars, inflight, pendingFetch, fcSeen, searchVars>>

RDeleteContactRejected ==
    /\ \E msg \in ErrorMessages : Commit(noCase(State), "removeContactFailure", msg)
    /\ settled' = "resolved"
    /\ UNCHANGED <<variant, displayed, otherVars, inflight, pendingFetch, fcSeen, searchVars>>

NextReduxWrite ==
    \/ RCreateContactFulfilled
    \/ RUpdateContactFulfilled
    \/ RDeleteContactFulfilled
    \/ RUpdateContactPending
    \/ RCreateContactRejected
    \/ RUpdateContactRejected
    \/ RDeleteContactRejected

\* the createContact, updateContact and deleteContact thunks of the Redux store
SpecReduxWrite == InitRedux /\ [][NextReduxWrite]_vars

\* ------------------------------- Redux update and delete thunks in flight
\* dispatch(updateContact(request)): the pending action has no reducer case, the
\* payload creator awaits contactsApi.updateContact
RUpdateContactCall ==
    /\ \E id \in Ids : Call("updateContactCall", id)
    /\ UNCHANGED <<variant, displayed, otherVars, pendingFetch, fcSeen, searchVars>>

\* the response of call i arrives: updateContact.fulfilled carries the contact
\* the server returned for the id of the request
RUpdateContactResponse ==
    /\ \E i \in DOMAIN inflight, c \in ContactInputs :
           /\ c.id = inflight[i].arg
           /\ Settles(i, "updateContactCall", "resolved")
           /\ Commit(updateContactFulfilled(State, c), "updateContactResponse", c.id)
    /\ UNCHANGED <<variant, displayed, otherVars, pendingFetch, fcSeen, searchVars>>

RDeleteContactCall ==
    /\ \E id \in Ids : Call("deleteContactCall", id)
    /\ UNCHANGED <<variant, displayed, otherVars, pendingFetch, fcSeen, searchVars>>

\* deleteContact.fulfilled carries the id of the request; prev holds the ids of
\* the updateContact calls that were started before this call and still wait
RDeleteContactResponse ==
    /\ \E i \in DOMAIN inflight :
           /\ Settles(i, "deleteContactCall", "resolved")
           /\ CommitFull(deleteContactFulfilled(State, inflight[i].arg), "deleteContactResponse",
                         inflight[i].arg,
                         {inflight[j].arg : j \in {k \in 1..(i - 1) :
                                                      inflight[k].op = "updateContactCall"}})
    /\ UNCHANGED <<variant, displayed, otherVars, pendingFetch, fcSeen, searchVars>>

NextReduxRace ==
    \/ RCreateContactFulfilled
    \/ RUpdateContactCall
    \/ RUpdateContactResponse
    \/ RDeleteContactCall
    \/ RDeleteContactResponse

\* overlapping updateContact and deleteContact thunks of the Redux store
SpecReduxRace == InitRedux /\ [][NextReduxRace]_vars

\* ------------------------------------------- RxJS ContactStore gateway steps
RxSetGroups ==
    /\ \E gs \in GroupListInputs : UpdateState(rxSetGroups(State, gs), "setGroups", gs)
    /\ UNCHANGED <<variant, displayed, otherVars, inflight, settled, pendingFetch, searchVars>>

RxFetchContactsStart ==
    /\ pendingFetch < MaxInFlight
    /\ UpdateState(rxFetchContactsStart(State), "fetchContacts", NULL)
    /\ pendingFetch' = pendingFetch + 1
    /\ settled' = "pending"
    /\ UNCHANGED <<variant, displayed, otherVars, inflight, searchVars>>

RxFetchContactsSuccess ==
    /\ pendingFetch > 0
    /\ \E data \in ContactLists :
           UpdateState(rxFetchContactsSuccess(State), "fetchContactsSuccess", data)
    /\ pendingFetch' = pendingFetch - 1
    /\ settled' = "resolved"
    /\ UNCHANGED <<variant, displayed, otherVars, inflight, searchVars>>

RxFetchContactsFailure ==
    /\ pendingFetch > 0
    /\ \E msg \in ErrorMessages :
           UpdateState(rxFetchContactsFailure(State, msg), "fetchContactsFailure", msg)
    /\ pendingFetch' = pendingFetch - 1
    /\ settled' = "rejected"
    /\ UNCHANGED <<variant, displayed, otherVars, inflight, searchVars>>

RxFetchGroupsStart ==
    /\ Len(inflight) < MaxRequests
    /\ UpdateState(Updated(State, {}), "fetchGroups", NULL)
    /\ inflight' = Append(inflight, Req("fetchGroups", NULL))
    /\ settled' = "pending"
    /\ UNCHANGED <<variant, displayed, otherVars, pendingFetch, searchVars>>

RxFetchGroupsSuccess ==
    /\ \E i \in DOMAIN inflight :
           /\ inflight[i].op = "fetchGroups"
           /\ inflight' = removeAt(inflight, i)
    /\ \E data \in GroupListInputs :
           UpdateState(rxFetchGroupsSuccess(State, data), "fetchGroupsSuccess", data)
    /\ settled' = "resolved"
    /\ UNCHANGED <<variant, displayed, otherVars, pendingFetch, searchVars>>

RxFetchGroupsFailure ==
    /\ \E i \in DOMAIN inflight :
           /\ inflight[i].op = "fetchGroups"
           /\ inflight' = removeAt(inflight, i)
    /\ \E msg \in ErrorMessages :
           UpdateState(rxFetchGroupsFailure(State, msg), "fetchGroupsFailure", msg)
    /\ settled' = "rejected"
    /\ UNCHANGED <<variant, displayed, otherVars, pendingFetch, searchVars>>

NextRxGateway ==
    \/ RxSetContacts
    \/ RxSetGroups
    \/ RxReset
    \/ RxFetchContactsStart
    \/ RxFetchContactsSuccess
    \/ RxFetchContactsFailure
    \/ RxFetchGroupsStart
    \/ RxFetchGroupsSuccess
    \/ RxFetchGroupsFailure

\* the gateway operations of the RxJS ContactStore, their caller subscribed
SpecRxGateway == InitRx /\ [][NextRxGateway]_vars

CommitSearch(ss, op, arg) ==
    /\ Len(ss.timers) <= MaxTimers
    /\ query' = ss.query
    /\ filters' = ss.filters
    /\ results' = ss.results
    /\ isSearching' = ss.isSearching
    /\ timers' = ss.timers
    /\ displayed' = displayContacts(ss, contacts)
    /\ lastOp' = [op |-> op, arg |-> arg, prev |-> NULL]

VSetQuery ==
    /\ \E q \in Queries : CommitSearch(setQuery(SearchState, contacts, q), "setQuery", q)
    /\ UNCHANGED <<variant, otherVars, inflight, settled, storeVars, pendingFetch, fcSeen>>

VSetFilters ==
    /\ \E partial \in FilterInputs :
           CommitSearch(setFilters(SearchState, contacts, partial), "setFilters", partial)
    /\ UNCHANGED <<variant, otherVars, inflight, settled, storeVars, pendingFetch, fcSeen>>

VAddGroupFilter ==
    /\ \E g \in {"g1"} :
           CommitSearch(addGroupFilter(SearchState, contacts, g), "addGroupFilter", g)
    /\ UNCHANGED <<variant, otherVars, inflight, settled, storeVars, pendingFetch, fcSeen>>

VRemoveGroupFilter ==
    /\ \E g \in {"g1"} :
           CommitSearch(removeGroupFilter(SearchState, contacts, g), "removeGroupFilter", g)
    /\ UNCHANGED <<variant, otherVars, inflight, settled, storeVars, pendingFetch, fcSeen>>

VToggleFavoritesFilter ==
    /\ CommitSearch(toggleFavoritesFilter(SearchState, contacts), "toggleFavoritesFilter", NULL)
    /\ UNCHANGED <<variant, otherVars, inflight, settled, storeVars, pendingFetch, fcSeen>>

VClearSearch ==
    /\ CommitSearch(clearSearch(SearchState), "clearSearch", NULL)
    /\ UNCHANGED <<variant, otherVars, inflight, settled, storeVars, pendingFetch, fcSeen>>

VSearchTimer ==
    /\ timers # <<>>
    /\ CommitSearch(searchTimer(SearchState), "searchTimer", Head(timers).query)
    /\ UNCHANGED <<variant, otherVars, inflight, settled, storeVars, pendingFetch, fcSeen>>

\* contactActions.addContact and deleteContact of the Valtio store have the
\* bodies of the Zustand actions; they replace or remove whole contact objects
VAddContact ==
    /\ \E c \in SearchContactInputs : Commit(addContact(State, c), "addContact", c.id)
    /\ displayed' = displayContacts(SearchState, contacts')
    /\ UNCHANGED <<variant, otherVars, inflight, settled, pendingFetch, fcSeen, searchVars>>

VDeleteContact ==
    /\ \E id \in Ids : Commit(deleteContact(State, id), "deleteContact", id)
    /\ displayed' = displayContacts(SearchState, contacts')
    /\ UNCHANGED <<variant, otherVars, inflight, settled, pendingFetch, fcSeen, searchVars>>

NextSearch ==
    \/ VSetQuery
    \/ VSetFilters
    \/ VAddGroupFilter
    \/ VRemoveGroupFilter
    \/ VToggleFavoritesFilter
    \/ VClearSearch
    \/ VSearchTimer
    \/ VAddContact
    \/ VDeleteContact

InitSearch == Init /\ variant = "valtio"

\* the Valtio searchStore over the Valtio contact store
SpecSearch == InitSearch /\ [][NextSearch]_vars

\* the display list of the Valtio search: query changes, one filter, clearing,
\* timer callbacks and entity changes
NextDisplay ==
    \/ VSetQuery
    \/ VToggleFavoritesFilter
    \/ VClearSearch
    \/ VSearchTimer
    \/ VAddContact
    \/ VDeleteContact

SpecDisplay == InitSearch /\ [][NextDisplay]_vars

\* searchService.searchContacts called on the stored contact list with a paged
\* request; the caller stores what it returns
PagedRequests ==
    LET fs == [groups : {<<>>, <<"g1">>}, favorites : BOOLEAN]
    IN [query : Queries, filters : fs]
           \cup [query : Queries, filters : fs, limit : 0..2]
           \cup [query : Queries, filters : fs, offset : 0..1]
           \cup [query : Queries, filters : fs, offset : 0..1, limit : 0..2]

SearchContactsCall ==
    /\ \E request \in PagedRequests :
           /\ results' = searchContacts(ObjectValues(contacts), request)
           /\ lastOp' = [op |-> "searchContacts", arg |-> request, prev |-> NULL]
    /\ displayed' = displayContacts([SearchState EXCEPT !.results = results'], contacts)
    /\ UNCHANGED <<variant, otherVars, inflight, settled, storeVars, pendingFetch, fcSeen,
                   query, filters, isSearching, timers>>

NextService ==
    \/ VAddContact
    \/ VDeleteContact
    \/ SearchContactsCall

SpecService == InitSearch /\ [][NextService]_vars

\* ------------------ the same completed operations in two implementations
\* the Zustand store (contacts, favorites, ...) and the Redux contacts slice
\* (twin) receive the same completed operation with the same response
CommitTwin(t) ==
    /\ Len(t.favorites) <= MaxFavorites
    /\ twin' = t

BothLoad ==
    /\ \E data \in ContactLists :
           /\ Commit(fetchContactsSuccess(State, data), "load", data)
           /\ CommitTwin(fetchContactsFulfilled(twin, data))
    /\ UNCHANGED <<variant, displayed, online, offlineActions, rerender, inflight, settled,
                   pendingFetch, fcSeen, searchVars>>

BothCreate ==
    /\ \E data \in ContactInputs :
           /\ Commit(createContactSuccess(State, data), "create", data.id)
           /\ CommitTwin(createContactFulfilled(twin, data))
    /\ UNCHANGED <<variant, displayed, online, offlineActions, rerender, inflight, settled,
                   pendingFetch, fcSeen, searchVars>>

BothUpdate ==
    /\ \E data \in ContactInputs :
           /\ Commit(saveContactSuccess(State, data.id, data), "update", data.id)
           /\ CommitTwin(updateContactFulfilled(twin, data))
    /\ UNCHANGED <<variant, displayed, online, offlineActions, rerender, inflight, settled,
                   pendingFetch, fcSeen, searchVars>>

BothDelete ==
    /\ \E id \in Ids :
           /\ Commit(removeContactSuccess(State, id), "delete", id)
           /\ CommitTwin(deleteContactFulfilled(twin, id))
    /\ UNCHANGED <<variant, displayed, online, offlineActions, rerender, inflight, settled,
                   pendingFetch, fcSeen, searchVars>>

BothToggle ==
    /\ \E id \in Ids :
           /\ Commit(toggleFavorite(State, id), "toggle", id)
           /\ CommitTwin(reduxToggleFavorite(twin, id))
    /\ UNCHANGED <<variant, displayed, online, offlineActions, rerender, inflight, settled,
                   pendingFetch, fcSeen, searchVars>>

NextVariants ==
    \/ BothLoad
    \/ BothCreate
    \/ BothUpdate
    \/ BothDelete
    \/ BothToggle

SpecVariants == InitZustand /\ [][NextVariants]_vars

\* ------------------------------------------------ Redux offlineMiddleware
\* an action of a createAsyncThunk lifecycle: its type is '<thunk>/<phase>'
ThunkAction(thunk, phase, arg) == [type |-> <<thunk, phase>>, arg |-> arg]

\* action.type.endsWith('/pending')
endsWithPending(action) == action.type[Len(action.type)] = "pending"

\* what the middleware leaves under 'offlineActions' before it calls next(action);
\* the timestamp of the entry is not kept here
offlineMiddleware(queue, isOnline, action) ==
    IF ~isOnline /\ endsWithPending(action)
    THEN push(queue, [action |-> action])
    ELSE queue

\* store.dispatch(action): the middleware, then the reducer result s
Dispatch(action, s) ==
    /\ Len(offlineMiddleware(offlineActions, online, action)) <= MaxQueued
    /\ offlineActions' = offlineMiddleware(offlineActions, online, action)
    /\ CommitFull(s, "dispatch", action.type,
                  IF endsWithPending(action) THEN action.arg ELSE NULL)

\* navigator.onLine changes with the connection
OConnectionChanges ==
    /\ online' = ~online
    /\ lastOp' = [op |-> "connection", arg |-> <<"navigator", "onLine">>, prev |-> NULL]
    /\ UNCHANGED <<variant, displayed, twin, offlineActions, rerender, inflight, settled,
                   storeVars, pendingFetch, fcSeen, searchVars>>

ODispatchFetchContactsPending ==
    /\ pendingFetch < MaxInFlight
    /\ Dispatch(ThunkAction("contacts/fetchContacts", "pending", NULL), fetchContactsPending(State))
    /\ pendingFetch' = pendingFetch + 1
    /\ UNCHANGED <<variant, displayed, twin, online, rerender, inflight, settled, fcSeen,
                   searchVars>>

ODispatchFetchContactsFulfilled ==
    /\ pendingFetch > 0
    /\ online
    /\ \E data \in ContactLists :
           Dispatch(ThunkAction("contacts/fetchContacts", "fulfilled", data),
                    fetchContactsFulfilled(State, data))
    /\ pendingFetch' = pendingFetch - 1
    /\ UNCHANGED <<variant, displayed, twin, online, rerender, inflight, settled, fcSeen,
                   searchVars>>

ODispatchFetchContactsRejected ==
    /\ pendingFetch > 0
    /\ \E msg \in ErrorMessages :
           Dispatch(ThunkAction("contacts/fetchContacts", "rejected", msg),
                    fetchContactsRejected(State, msg))
    /\ pendingFetch' = pendingFetch - 1
    /\ UNCHANGED <<variant, displayed, twin, online, rerender, inflight, settled, fcSeen,
                   searchVars>>

ODispatchDeleteContactPending ==
    /\ \E id \in Ids :
           Dispatch(ThunkAction("contacts/deleteContact", "pending", id), noCase(State))
    /\ UNCHANGED <<variant, displayed, twin, online, rerender, inflight, settled, pendingFetch,
                   fcSeen, searchVars>>

NextOffline ==
    \/ OConnectionChanges
    \/ ODispatchFetchContactsPending
    \/ ODispatchFetchContactsFulfilled
    \/ ODispatchFetchContactsRejected
    \/ ODispatchDeleteContactPending

\* the Redux store behind offlineMiddleware; every step that can be taken is
\* eventually taken
SpecOffline == InitRedux /\ [][NextOffline]_vars /\ WF_vars(NextOffline)

\* ----------------------------- Zustand searchStore under the ContactList view
\* useSearchStore.setQuery
zSetQuery(ss, q) == [ss EXCEPT !.query = q]

\* useSearchStore.searchContacts(contacts): query and filters are read now,
\* the timer callback uses them and the list it was given
zSearchContacts(ss, cs) ==
    [ss EXCEPT !.isSearching = TRUE,
               !.timers = Append(ss.timers, [query |-> ss.query, filters |-> ss.filters,
                                             contacts |-> cs])]

\* the setTimeout callback of searchContacts, oldest timer first
zSearchTimer(ss) ==
    LET t == Head(ss.timers)
    IN [ss EXCEPT !.results = searchContacts(t.contacts, Request(t.query, t.filters)),
                  !.isSearching = FALSE,
                  !.timers = Tail(ss.timers)]

\* the user fills the contact store before typing; ContactList subscribes to it
LAddContact ==
    /\ query = <<>>
    /\ \E c \in ContactInputs : Commit(addContact(State, c), "addContact", c.id)
    /\ rerender' = TRUE
    /\ UNCHANGED <<variant, displayed, twin, online, offlineActions, inflight, settled,
                   pendingFetch, fcSeen, searchVars>>

\* the user sets the query once; every subscriber of the search store re-renders
LSetQuery ==
    /\ query = <<>>
    /\ \E q \in Queries \ {<<>>} : CommitSearch(zSetQuery(SearchState, q), "setQuery", q)
    /\ rerender' = TRUE
    /\ UNCHANGED <<variant, twin, online, offlineActions, inflight, settled, storeVars,
                   pendingFetch, fcSeen>>

\* ContactList renders and its effect runs: allContacts is a new array on every
\* render, so the effect runs after every render; a set() that changes the
\* store (isSearching was false) makes the view render again
LRender ==
    /\ rerender
    /\ IF trim(query) # <<>>
       THEN /\ CommitSearch(zSearchContacts(SearchState, ObjectValues(contacts)),
                            "searchContacts", query)
            /\ rerender' = ~isSearching
       ELSE /\ CommitSearch(SearchState, "render", query)
            /\ rerender' = FALSE
    /\ UNCHANGED <<variant, twin, online, offlineActions, inflight, settled, storeVars,
                   pendingFetch, fcSeen>>

\* a timer expires: results is assigned a new array, so the store changes and
\* the view renders again
LSearchTimer ==
    /\ timers # <<>>
    /\ CommitSearch(zSearchTimer(SearchState), "searchTimer", Head(timers).query)
    /\ rerender' = TRUE
    /\ UNCHANGED <<variant, twin, online, offlineActions, inflight, settled, storeVars,
                   pendingFetch, fcSeen>>

NextListView ==
    \/ LAddContact
    \/ LSetQuery
    \/ LRender
    \/ LSearchTimer

\* React runs a due render and the browser runs an expired timer
SpecListView ==
    InitZustand /\ [][NextListView]_vars /\ WF_vars(LRender) /\ WF_vars(LSearchTimer)

\* the four entity operations alone, from the empty store
NextCrud ==
    \/ ZAddContact
    \/ ZUpdateContact
    \/ ZDeleteContact
    \/ ZToggleFavorite

SpecCrud == InitZustand /\ [][NextCrud]_vars

\* ------------------------------------------------------------------ claims
NoDuplicates(seq) == Cardinality(elems(seq)) = Len(seq)

FavoriteKeys(m) == {k \in DOMAIN m : m[k].isFavorite}

\* ids of xs, ids of its favorite-flagged entries, and the last entry of xs under an id
IdsOf(xs) == {xs[i].id : i \in DOMAIN xs}

FavoriteIdsOf(xs) == {xs[i].id : i \in {j \in DOMAIN xs : xs[j].isFavorite}}

LastWith(xs, k) == xs[CHOOSE i \in DOMAIN xs : xs[i].id = k /\ \A j \in DOMAIN xs : xs[j].id = k => j <= i]

\* C1: after any sequence of addContact, updateContact, toggleFavorite and
\* deleteContact calls the favorites list holds exactly the keys of the stored
\* entities whose isFavorite flag is true, each once.
C1_FavoritesMatchFlags ==
    /\ elems(favorites) = FavoriteKeys(contacts)
    /\ NoDuplicates(favorites)

\* C2: a mutation that changes the entity map and favorites is atomic for
\* subscribers: everything a favoriteContacts$ subscriber receives during the
\* mutation is the favorite list of the state before or of the state after it,
\* never one built from the new entity map and the old favorites.
C2_SubscriberSeesNoIntermediate ==
    \A i \in DOMAIN fcSeen.seen :
        fcSeen.seen[i] \in {fcSeen.pre, favoriteContactsOf(contacts, favorites)}

\* C3: the completion of a search whose query no longer equals the current
\* query (also when the current query has become empty) never overwrites the
\* stored results.
C3_StaleCompletionIgnored ==
    [][(lastOp'.op = "searchTimer" /\ lastOp'.arg # query) => results' = results]_vars

\* C4: after setContacts(xs) the entity map holds exactly the entities of xs by
\* id (nothing stored before survives) and favorites holds exactly the ids of
\* the favorite-flagged entities of xs, none surviving from before the call.
C4_SetContactsReplaces ==
    lastOp.op = "setContacts" =>
        LET xs == lastOp.arg
        IN /\ DOMAIN contacts = IdsOf(xs)
           /\ \A k \in DOMAIN contacts : contacts[k] = LastWith(xs, k)
           /\ elems(favorites) = FavoriteIdsOf(xs)
           /\ Len(favorites) = Cardinality({j \in DOMAIN xs : xs[j].isFavorite})

\* C4 witness: setContacts ran on a store that held an entity and a favorite
\* that are not in xs.
C4_Witness ==
    /\ lastOp.op = "setContacts"
    /\ lastOp.prev.keys \ IdsOf(lastOp.arg) # {}
    /\ elems(lastOp.prev.favorites) \ FavoriteIdsOf(lastOp.arg) # {}
    /\ lastOp.arg # <<>>

\* C5: after a successful fetchContacts the entity map equals the returned list
\* and favorites holds exactly the ids of that list's favorite entities, each once.
C5_FetchReplaces ==
    lastOp.op = "fetchContactsSuccess" =>
        LET xs == lastOp.arg
        IN /\ DOMAIN contacts = IdsOf(xs)
           /\ \A k \in DOMAIN contacts : contacts[k] = LastWith(xs, k)
           /\ elems(favorites) = FavoriteIdsOf(xs)
           /\ NoDuplicates(favorites)

\* C6: after a group g is deleted, g is not in the group map and no stored
\* entity's groups list contains g.
C6_GroupPurged ==
    lastOp.op = "deleteGroup" =>
        /\ lastOp.arg \notin DOMAIN groups
        /\ \A k \in DOMAIN contacts : ~includes(contacts[k].groups, lastOp.arg)

\* C7: update, remove and toggleFavorite with an id that is not in the entity
\* map leave contacts, groups, favorites, loading and error unchanged.
C7_UnknownIdNoOp ==
    [][(/\ lastOp'.op \in {"updateContact", "deleteContact", "toggleFavorite"}
        /\ lastOp'.arg \notin DOMAIN contacts)
       => UNCHANGED storeVars]_vars

\* C8: after an entity is deleted its id is absent from the entity map, from
\* favorites, from the stored search results and from the displayed list.
C8_DeletedAbsentEverywhere ==
    lastOp.op = "deleteContact" =>
        /\ lastOp.arg \notin DOMAIN contacts
        /\ ~includes(favorites, lastOp.arg)
        /\ lastOp.arg \notin IdsOf(results)
        /\ lastOp.arg \notin IdsOf(displayContacts(SearchState, contacts))

\* C9: while the query is non-empty, once every triggered computation has
\* finished the stored results equal the search of the current entities with
\* the current query and the current filters.
C9_ResultsCurrentAtQuiescence ==
    (timers = <<>> /\ trim(query) # <<>>) =>
        results = searchContacts(ObjectValues(contacts), Request(query, filters))

\* C10: in a burst of query changes no computation is started for a superseded
\* text: every pending computation is for the current query text.
C10_OnlyLastTextComputed ==
    \A i \in DOMAIN timers : timers[i].query = query

\* C11: when the remote list call of fetchContacts or fetchGroups fails, the
\* error message is stored in error, the entity map, groups and favorites stay
\* as they were, and the operation does not reject towards its caller.
C11_FetchFailureSwallowed ==
    [][lastOp'.op \in {"fetchContactsFailure", "fetchGroupsFailure"} =>
          /\ error' = lastOp'.arg
          /\ UNCHANGED <<contacts, groups, favorites>>
          /\ settled' # "rejected"]_vars

\* C12: when the remote call of createContact, saveContact or removeContact
\* fails, the error message is stored in error, the error is re-raised to the
\* caller, and the entity map and favorites are as they were before the call.
C12_WriteFailureRecordedAndRaised ==
    [][lastOp'.op \in {"createContactFailure", "saveContactFailure", "removeContactFailure"} =>
          /\ error' = lastOp'.arg
          /\ settled' = "rejected"
          /\ UNCHANGED <<contacts, favorites>>]_vars

\* C14: in the Redux variant updateContact is optimistic: once the request has
\* been dispatched and before the server responds, the stored entity already
\* has the requested values.
C14_UpdateAppliedBeforeResponse ==
    (lastOp.op = "updateContactPending" /\ lastOp.arg.id \in DOMAIN contacts) =>
        contacts[lastOp.arg.id] = lastOp.arg

\* C13: createContact, saveContact, removeContact and fetchGroups set loading to
\* true and clear the stored error before their remote call starts.
C13_CallSetsLoadingClearsError ==
    [][lastOp'.op \in {"createContact", "saveContact", "removeContact", "fetchGroups"} =>
          (loading' = TRUE /\ error' = NULL)]_vars

\* C15: when a saveContact call for a stored id completes, the stored entity has
\* the field values of that response, whatever the order in which the calls for
\* that id were started: the response that completed last is the one stored.
C15_LastCompletedSaveWins ==
    (lastOp.op = "saveContactSuccess" /\ lastOp.arg.id \in DOMAIN contacts) =>
        contacts[lastOp.arg.id] = lastOp.arg.data

\* C15 witness: a saveContact call completed after a call for the same id that
\* was started later, and its response changed the stored entity.
C15_Witness ==
    /\ lastOp.op = "saveContactSuccess"
    /\ lastOp.prev.overtaken
    /\ lastOp.prev.changes
    /\ lastOp.arg.id \in DOMAIN contacts

\* C16: for every key k of the entity map the stored entity's id field is k.
C16_IdMatchesKey == \A k \in DOMAIN contacts : contacts[k].id = k

\* C17: every stored entity's group-membership list contains each group id at
\* most once, also after add and update with a caller-supplied groups list.
C17_MembershipsUnique == \A k \in DOMAIN contacts : NoDuplicates(contacts[k].groups)

\* C18: from any reachable store state and for any id, toggleFavorite(id)
\* applied twice in succession restores the entity's favorite flag and the
\* membership of the favorites list.
C18_ToggleTwiceRestores ==
    \A id \in Ids :
        LET twice == toggleFavorite(toggleFavorite(State, id), id)
        IN /\ DOMAIN twice.contacts = DOMAIN contacts
           /\ id \in DOMAIN contacts =>
                  twice.contacts[id].isFavorite = contacts[id].isFavorite
           /\ elems(twice.favorites) = elems(favorites)

\* C19: after setContacts(xs), also when an id occurs more than once in xs, the
\* entity stored under an id is its last occurrence in xs, and the id is in
\* favorites exactly once if that occurrence is a favorite and not at all otherwise.
C19_DuplicateIdsLastWins ==
    lastOp.op = "setContacts" =>
        \A k \in IdsOf(lastOp.arg) :
            /\ k \in DOMAIN contacts
            /\ contacts[k] = LastWith(lastOp.arg, k)
            /\ Len(SelectSeq(favorites, LAMBDA f : f = k)) =
                   (IF LastWith(lastOp.arg, k).isFavorite THEN 1 ELSE 0)

\* C20: reset(), after any history of mutations, loading changes and errors,
\* leaves the initial state: empty entity map, empty group map, empty
\* favorites, loading false, error null.
C20_ResetYieldsInitialState ==
    lastOp.op = "reset" =>
        /\ contacts = EmptyMap
        /\ groups = EmptyMap
        /\ favorites = <<>>
        /\ loading = FALSE
        /\ error = NULL

\* C20 witness: reset ran on a store that held entities, groups and favorites
\* and had an error stored.
C20_Witness ==
    /\ lastOp.op = "reset"
    /\ lastOp.prev.keys # {}
    /\ lastOp.prev.groupKeys # {}
    /\ lastOp.prev.favorites # <<>>
    /\ lastOp.prev.error # NULL

\* C21: clearSearch leaves the query empty, the filters at their defaults and
\* the results empty, and the results are still empty after a search that was
\* started before clearSearch delivers its callback right after it.
C21_ClearSearchStays ==
    [][/\ lastOp'.op = "clearSearch" =>
              query' = <<>> /\ filters' = defaultFilters /\ results' = <<>>
       /\ (lastOp.op = "clearSearch" /\ lastOp'.op = "searchTimer") => results' = <<>>]_vars

\* C27: after every step of a fetchContacts call, loading is true exactly when
\* at least one fetchContacts call still awaits its response.
C27_LoadingIffFetchInFlight ==
    [][lastOp'.op \in {"fetchContacts", "fetchContactsSuccess", "fetchContactsFailure"} =>
           loading' = (pendingFetch' > 0)]_vars

\* C29: isSearching is true exactly when at least one started search has not
\* yet written its results.
C29_SearchingIffPending == isSearching = (timers # <<>>)

\* C24: each of contacts$, favorites$, groups$, loading$ and error$ emits during
\* an operation only when the content of its own slice changed, so setLoading,
\* setError and an update, toggle or delete of an unknown id emit nothing on the
\* slices they leave unchanged.
C24_EmitsOnlyOnChange ==
    [][/\ "contacts" \in fcSeen'.emitted => contacts' # contacts
       /\ "favorites" \in fcSeen'.emitted => favorites' # favorites
       /\ "groups" \in fcSeen'.emitted => groups' # groups
       /\ "loading" \in fcSeen'.emitted => loading' # loading
       /\ "error" \in fcSeen'.emitted => error' # error]_vars

\* C28: when a removeContact for an id has completed and a saveContact for the
\* same id that was started before it completes afterwards, the entity is still
\* absent from the entity map and the id is still absent from favorites.
C28_DeletedNotResurrected ==
    [][(/\ lastOp.op = "deleteContactResponse"
        /\ lastOp.arg \in lastOp.prev
        /\ lastOp'.op = "updateContactResponse"
        /\ lastOp'.arg = lastOp.arg) =>
           (lastOp.arg \notin DOMAIN contacts' /\ ~includes(favorites', lastOp.arg))]_vars

\* C23: a search with an empty query returns entities that pass the group filter
\* and the favorites filter, in ascending surname order, at most limit of them
\* for every limit >= 0 (50 when no limit is given), and all stored entities
\* when no filter is set and the paging is the default one.
C23_EmptyQueryPaged ==
    (lastOp.op = "searchContacts" /\ trim(lastOp.arg.query) = <<>>) =>
        LET r == lastOp.arg
            limit == IF "limit" \in DOMAIN r THEN r.limit ELSE DefaultLimit
        IN /\ \A i \in DOMAIN results :
                  /\ r.filters.groups # <<>> =>
                         \E k \in DOMAIN results[i].groups :
                             includes(r.filters.groups, results[i].groups[k])
                  /\ r.filters.favorites => results[i].isFavorite
           /\ \A i, j \in DOMAIN results : i < j => ~localeLess(results[j].last, results[i].last)
           /\ Len(results) <= limit
           /\ (r.filters = defaultFilters /\ DOMAIN r = {"query", "filters"}) =>
                  elems(results) = {contacts[k] : k \in DOMAIN contacts}

\* C22: the displayed contact list is the stored results exactly when the
\* trimmed query is non-empty and the full entity list when the query is empty
\* or whitespace only, after every change of the query, the results or the
\* entities.
C22_DisplayedList ==
    displayed = IF trim(query) # <<>> THEN results ELSE ObjectValues(contacts)

C22_Witness ==
    /\ query = <<" ">>
    /\ contacts # EmptyMap
    /\ displayed = ObjectValues(contacts)
    /\ displayed # results
    /\ lastOp.op = "searchTimer"

\* C25: fed the same sequence of completed operations (load all, create,
\* update, delete, toggle favorite) the implementations end with the same
\* entity map and the same favorites.
C25_VariantsAgree == twin.contacts = contacts /\ twin.favorites = favorites

C30_SearchSettles == <>[](isSearching = FALSE /\ timers = <<>>)

====
